---- MODULE Spec2Model ----
(***************************************************************************)
(* open-get-fonts: the native module behind getFonts().                    *)
(*                                                                         *)
(* get_fonts (lib.rs) creates a promise, spawns a worker thread that runs  *)
(* get_system_fonts, and hands the result back to the event loop through   *)
(* a channel, where a closure resolves the promise.  get_system_fonts asks *)
(* font-kit for all families and, when that listing fails, runs the probe  *)
(* of the compiled target OS (linux.rs, macos.rs, windows.rs).             *)
(*                                                                         *)
(* Text is modelled as a sequence of tokens (chunks of characters); the    *)
(* empty string is << >>.  An OS path may hold a token that is not valid   *)
(* Unicode (BadByte); a UTF-16 buffer may hold a lone surrogate.           *)
(***************************************************************************)
EXTENDS Integers, Sequences, FiniteSets, TLC

\* ------------------------------------------------------------------ bounds
\* Longest list any native service reports (families, patterns, descriptors).
MaxFamilies == 2
\* Most getFonts() calls in flight at once (specification SpecCalls).
MaxCalls == 2

\* ------------------------------------------------------------------ values
None == [some |-> FALSE, val |-> << >>]
Some(v) == [some |-> TRUE, val |-> v]

SeqsUpTo(S, n) == UNION {[1..k -> S] : k \in 0..n}

\* A byte sequence of an OS path that is not valid UTF-8.
BadByte == "\\xFF"
\* U+FFFD REPLACEMENT CHARACTER.
Replacement == "\\uFFFD"
\* A UTF-16 code unit that is an unpaired surrogate.
LoneSurrogate == "\\uD800"
\* The UTF-16 terminator.
Nul == "\\0"

FontInfo(name, path) == [name |-> name, path |-> path]

\* OsStr::to_string_lossy: every invalid sequence becomes U+FFFD.
to_string_lossy(p) ==
    [k \in DOMAIN p |-> IF p[k] = BadByte THEN Replacement ELSE p[k]]

\* process_handle without its Handle::Memory arm: a font in memory is not
\* reported.
process_handle_skips_memory(fonts, handle, family_name) ==
    IF handle.kind = "Path"
    THEN Append(fonts, FontInfo(family_name, to_string_lossy(handle.path)))
    ELSE fonts

\* The closure process_handle of get_system_fonts: the list after one handle.
process_handle(fonts, handle, family_name) ==
    IF handle.kind = "Path"
    THEN Append(fonts, FontInfo(family_name, to_string_lossy(handle.path)))
    ELSE Append(fonts, FontInfo(family_name, << >>))

\* The probe is run and its records are never added to the list.
extend_with_probe_dropped(fonts, ret) == fonts

\* `if let Some(probe_fonts) = probe() { fonts.extend(probe_fonts) }`
extend_with_probe(fonts, ret) ==
    IF ret.some THEN fonts \o ret.val ELSE fonts

\* ------------------------------------------------------------- linux.rs
\* The object names handed to CString::new (FC_FAMILY, FC_FILE, without NUL).
FC_FAMILY == <<"family">>
FC_FILE == <<"file">>

\* CString::new(bytes): an error when the bytes hold an interior NUL.
CStringNew(bytes) ==
    IF \E n \in DOMAIN bytes : bytes[n] = Nul THEN None ELSE Some(bytes)

\* The well-known paths tried when the query gave no font, in order.  A path
\* is written as its tokens: "/" separates components, "." is a dot of the
\* file name.
HardcodedPaths ==
    << <<"/usr/share/fonts/truetype/dejavu", "/", "DejaVuSans", ".", "ttf">>,
       <<"/usr/share/fonts/truetype/liberation", "/", "LiberationSans-Regular", ".", "ttf">>,
       <<"/usr/share/fonts/TTF", "/", "Arial", ".", "ttf">> >>

\* The last index of token tok in s, 0 when it does not occur.
LastIndexOf(s, tok) ==
    LET at == {n \in DOMAIN s : s[n] = tok}
    IN  IF at = {} THEN 0 ELSE CHOOSE n \in at : \A m \in at : m <= n

\* Path::file_name: the final component, none for an empty one or "..".
file_name(p) ==
    LET n == SubSeq(p, LastIndexOf(p, "/") + 1, Len(p))
    IN  IF n = << >> \/ n = <<".", ".">> THEN None ELSE Some(n)

\* file_name in the place of file_stem: the extension stays in the name.
file_stem_keeps_extension(p) == file_name(p)

\* Path::file_stem: the file name up to its final dot; the whole name when it
\* has no dot, or only a leading one.
file_stem(p) ==
    LET n == file_name(p)
        d == LastIndexOf(n.val, ".")
    IN  IF ~n.some THEN None
        ELSE IF d <= 1 THEN n
        ELSE Some(SubSeq(n.val, 1, d - 1))

\* Option<&OsStr>::unwrap_or_default.
unwrap_or_default(o) == IF o.some THEN o.val ELSE << >>

\* The record pushed for one hardcoded path that exists.
hardcoded_font(path) ==
    FontInfo(to_string_lossy(unwrap_or_default(file_stem(path))), path)

\* The body of `for pattern in font_set.iter()`: the list after one pattern.
fontconfig_pattern(fonts, pattern) ==
    IF pattern.family.some /\ pattern.file.some
    THEN Append(fonts, FontInfo(pattern.family.val, pattern.file.val))
    ELSE fonts

\* The test made on the query's result set instead of on the records built.
use_hardcoded_if_set_empty(fonts, font_set) == font_set = << >>

\* `if fonts.is_empty()`: whether the hardcoded paths are tried.
use_hardcoded(fonts, font_set) == fonts = << >>

\* ------------------------------------------------------------- macos.rs
\* CFURL::to_path: only a file URL converts.
to_path(url) == IF url.is_file THEN Some(url.path) ELSE None

\* The body of `for i in 0..descriptors.len()`: the list after one descriptor.
core_text_descriptor(fonts, d) ==
    IF d.url.some /\ to_path(d.url.val).some
    THEN Append(fonts, FontInfo(d.name, to_string_lossy(to_path(d.url.val).val)))
    ELSE fonts

\* ----------------------------------------------------------- windows.rs
\* GetString into vec![0; name_length + 1]: the units, then the terminator.
\* (name_length is a u32; a name table entry is far shorter than 2^32 - 1
\* units, so name_length + 1 does not wrap.)
name_buffer(units) == units \o <<Nul>>

\* U16CString::from_vec_with_nul: the units before the first NUL; an error
\* when the buffer holds none.
from_vec_with_nul(buf) ==
    LET at == {n \in DOMAIN buf : buf[n] = Nul}
    IN  IF at = {} THEN None
        ELSE Some(SubSeq(buf, 1, (CHOOSE n \in at : \A m \in at : n <= m) - 1))

\* U16CString::to_string: an error on an unpaired surrogate.
utf16_to_string(ws) ==
    IF \E n \in DOMAIN ws : ws[n] = LoneSurrogate THEN None ELSE Some(ws)

\* from_vec_with_nul(..).ok().and_then(|s| s.to_string().ok()).unwrap_or_default()
decode_name(buf) ==
    LET s == from_vec_with_nul(buf)
    IN  IF s.some THEN unwrap_or_default(utf16_to_string(s.val)) ELSE << >>

\* format!("C:\\Windows\\Fonts\\{}.ttf", name)
placeholder_path(name) == <<"C:\\Windows\\Fonts\\">> \o name \o <<".ttf">>

\* The native handles one family index acquires before it is skipped or
\* pushed: the family, then its localized-name table.  Handles are raw
\* pointers: nothing in the probe calls Release on them.
family_handles(fam, idx) ==
    (IF fam.fail # "family" THEN {<<"family", idx>>} ELSE {})
    \cup (IF fam.fail \notin {"family", "names"} THEN {<<"names", idx>>} ELSE {})

\* The body of `for i in 0..family_count`: the list after one family index.
\* fam.fail names the call whose HRESULT is a failure ("none": all succeed).
directwrite_family(fonts, fam) ==
    IF fam.fail # "none" THEN fonts
    ELSE LET name == decode_name(name_buffer(fam.units))
         IN  Append(fonts, FontInfo(name, placeholder_path(name)))

\* ---------------------------------------------------- the host system
\* The targets lib.rs compiles a probe for (#[cfg(target_os = ...)]).
Targets == {"linux", "macos", "windows"}

FamilyNames == {<<"Arial">>, <<"DejaVu Sans">>}
FontPaths == {<<"/fonts/a.ttf">>, <<"/fonts/", BadByte, ".ttf">>}

\* font_kit::handle::Handle.
PathHandle(p) == [kind |-> "Path", path |-> p]
MemoryHandle == [kind |-> "Memory", path |-> << >>]

\* What select_best_match answers for one family.
BestMatches ==
    {[ok |-> FALSE, handle |-> MemoryHandle], [ok |-> TRUE, handle |-> MemoryHandle]}
    \cup {[ok |-> TRUE, handle |-> PathHandle(p)] : p \in FontPaths}

\* What all_families answers: an error, or the families in listing order,
\* each with the answer select_best_match will give for it.
Listings(n) ==
    {[ok |-> FALSE, val |-> << >>]}
    \cup {[ok |-> TRUE, val |-> l] :
            l \in SeqsUpTo([name : FamilyNames, match : BestMatches], n)}

\* fontconfig: whether Fontconfig::new succeeds, the patterns list_fonts
\* returns (each property present or not), and which hardcoded paths exist.
FcPatterns ==
    [family : {None, Some(<<"Arial">>)}, file : {None, Some(<<"/fonts/a.ttf">>)}]
FcSystems(n) ==
    {[init |-> FALSE, font_set |-> << >>, exists |-> {}]}
    \cup [init : {TRUE}, font_set : SeqsUpTo(FcPatterns, n),
          exists : SUBSET DOMAIN HardcodedPaths]

\* Core Text: the descriptors of the collection, or none; each descriptor's
\* family name and URL attribute (absent, not a file URL, or a file path).
CtUrls ==
    {None, Some([is_file |-> FALSE, path |-> << >>])}
    \cup {Some([is_file |-> TRUE, path |-> p]) : p \in FontPaths}
CtSystems(n) ==
    {None} \cup {Some(l) : l \in SeqsUpTo([name : {<<"Arial">>}, url : CtUrls], n)}

\* DirectWrite: whether the factory and the collection are obtained, and per
\* family index the call that fails (if any) and the UTF-16 units of entry 0
\* of its name table.
DwFamilies ==
    {[fail |-> f, units |-> <<"Arial">>] : f \in {"family", "names", "length", "string"}}
    \cup {[fail |-> "none", units |-> u] :
            u \in {<<"Arial">>, << >>, <<"Ari", LoneSurrogate>>}}
DwSystems(n) ==
    {[factory |-> FALSE, collection |-> FALSE, families |-> << >>],
     [factory |-> TRUE, collection |-> FALSE, families |-> << >>]}
    \cup [factory : {TRUE}, collection : {TRUE}, families : SeqsUpTo(DwFamilies, n)]

\* A system on which every probe finds something.
DefaultFc ==
    [init |-> TRUE, font_set |-> <<[family |-> Some(<<"Arial">>),
                                   file |-> Some(<<"/fonts/a.ttf">>)]>>, exists |-> {1}]
DefaultCt ==
    Some(<<[name |-> <<"Arial">>, url |-> Some([is_file |-> TRUE, path |-> <<"/fonts/a.ttf">>])]>>)
DefaultDw ==
    [factory |-> TRUE, collection |-> TRUE,
     families |-> <<[fail |-> "none", units |-> <<"Arial">>]>>]

System(l, fc, ct, dw) == [families |-> l, fc |-> fc, ct |-> ct, dw |-> dw]

\* The systems one enumeration is checked on, for target t: every listing
\* with the default probes, and a failed listing with every state of the
\* native service of t.
Systems(t, n) ==
    {System(l, DefaultFc, DefaultCt, DefaultDw) : l \in Listings(n)}
    \cup {System([ok |-> FALSE, val |-> << >>],
                 IF t = "linux" THEN x ELSE DefaultFc,
                 IF t = "macos" THEN x ELSE DefaultCt,
                 IF t = "windows" THEN x ELSE DefaultDw) :
            x \in CASE t = "linux" -> FcSystems(n)
                    [] t = "macos" -> CtSystems(n)
                    [] OTHER -> DwSystems(n)}

\* The few systems concurrent calls are checked on.
FewSystems ==
    {System(l, DefaultFc, DefaultCt, DefaultDw) :
        l \in {[ok |-> FALSE, val |-> << >>],
               [ok |-> TRUE, val |-> <<[name |-> <<"Arial">>,
                                       match |-> [ok |-> TRUE, handle |-> MemoryHandle]]>>],
               [ok |-> TRUE, val |-> << >>]}}
    \cup {System([ok |-> FALSE, val |-> << >>],
                 [init |-> TRUE, font_set |-> << >>, exists |-> {1}],
                 DefaultCt, DefaultDw)}

\* ------------------------------------------------------------------ state
VARIABLES
    target,     \* the target OS the module was compiled for
    calls,      \* the getFonts() calls JavaScript makes
    system,     \* system[c]: the fonts of the host when call c enumerates
    pc,         \* pc[c]: where call c and its worker thread are
    fonts,      \* fonts[c]: `fonts` of get_system_fonts
    i,          \* i[c]: position of `for family_name in font_families`
    events,     \* events[c]: the calls get_system_fonts has made, in order
    pfonts,     \* pfonts[c]: `fonts` of the running probe
    k,          \* k[c]: position of the running probe's loop
    ret,        \* ret[c]: what the probe returned
    held,       \* held[c]: native handles acquired and not released
    result,     \* result[c]: what get_system_fonts returned to the thread
    deferred,   \* deferred[c]: the Arc<Mutex<Option<Deferred>>> of call c
    promise,    \* promise[c]: the promise get_fonts returned
    resolves,   \* resolves[c]: how often promise c was resolved
    channel     \* closures sent to the event loop and not yet run

orchVars == <<fonts, i, events, result>>
probeVars == <<pfonts, k, ret, held>>
jsVars == <<deferred, promise, resolves, channel>>
vars == <<target, calls, system, pc, orchVars, probeVars, jsVars>>

NotReturned == [tag |-> "none", val |-> << >>]
Returned(v) == [tag |-> "ok", val |-> v]

InitCalls(cs) ==
    /\ calls = cs
    /\ pc = [c \in cs |-> "idle"]
    /\ fonts = [c \in cs |-> << >>]
    /\ i = [c \in cs |-> 1]
    /\ events = [c \in cs |-> << >>]
    /\ pfonts = [c \in cs |-> << >>]
    /\ k = [c \in cs |-> 1]
    /\ ret = [c \in cs |-> None]
    /\ held = [c \in cs |-> {}]
    /\ result = [c \in cs |-> NotReturned]
    /\ deferred = [c \in cs |-> "none"]
    /\ promise = [c \in cs |-> [state |-> "none", value |-> << >>]]
    /\ resolves = [c \in cs |-> 0]
    /\ channel = << >>

\* One call, on any system within the bounds.
Init ==
    /\ target \in Targets
    /\ InitCalls({1})
    /\ system \in [{1} -> Systems(target, MaxFamilies)]

\* Up to MaxCalls calls in flight, each on one of a few systems.
InitManyCalls ==
    /\ target \in Targets
    /\ InitCalls(1..MaxCalls)
    /\ system \in [1..MaxCalls -> FewSystems]

\* ----------------------------------------------------- lib.rs: get_fonts
\* get_fonts: cx.promise(), Arc::new(Mutex::new(Some(deferred))) and
\* std::thread::spawn; the promise is returned to JavaScript.
GetFonts(c) ==
    /\ pc[c] = "idle"
    /\ promise' = [promise EXCEPT ![c].state = "pending"]
    /\ deferred' = [deferred EXCEPT ![c] = "some"]
    /\ pc' = [pc EXCEPT ![c] = "spawned"]
    /\ UNCHANGED <<target, calls, system, orchVars, probeVars, resolves, channel>>

\* -------------------------------------------- lib.rs: get_system_fonts
\* A listing of zero families taken for a failure too.
listing_ok_and_nonempty(l) == l.ok /\ l.val # << >>

\* `if let Ok(font_families) = source.all_families()`, else the fallback.
listing_ok(l) == l.ok

AllFamilies(c) ==
    /\ pc[c] = "spawned"
    /\ fonts' = [fonts EXCEPT ![c] = << >>]
    /\ IF listing_ok(system[c].families)
       THEN /\ events' = [events EXCEPT ![c] = Append(@, "families_ok")]
            /\ i' = [i EXCEPT ![c] = 1]
            /\ pc' = [pc EXCEPT ![c] = "families"]
       ELSE /\ events' = [events EXCEPT ![c] = Append(@, "families_err")]
            /\ i' = i
            /\ pc' = [pc EXCEPT ![c] = "fallback"]
    /\ UNCHANGED <<target, calls, system, result, probeVars, jsVars>>

\* One turn of `for family_name in font_families`: select_best_match, and
\* process_handle when it answers Ok.
best_match_step(fs, family) ==
    IF family.match.ok THEN process_handle(fs, family.match.handle, family.name)
    ELSE fs

SelectBestMatch(c) ==
    /\ pc[c] = "families"
    /\ i[c] <= Len(system[c].families.val)
    /\ fonts' = [fonts EXCEPT ![c] = best_match_step(@, system[c].families.val[i[c]])]
    /\ i' = [i EXCEPT ![c] = @ + 1]
    /\ UNCHANGED <<target, calls, system, pc, events, result, probeVars, jsVars>>

FamiliesEnd(c) ==
    /\ pc[c] = "families"
    /\ i[c] > Len(system[c].families.val)
    /\ pc' = [pc EXCEPT ![c] = "return"]
    /\ UNCHANGED <<target, calls, system, orchVars, probeVars, jsVars>>

\* The #[cfg(target_os)] block of the else branch: the probe compiled in.
probe_of(t) == t

first_probe_pc(t) ==
    CASE t = "linux" -> "fc_new"
      [] t = "macos" -> "ct_descriptors"
      [] OTHER -> "dw_factory"

Fallback(c) ==
    /\ pc[c] = "fallback"
    /\ events' = [events EXCEPT ![c] = Append(@, probe_of(target))]
    /\ pfonts' = [pfonts EXCEPT ![c] = << >>]
    /\ k' = [k EXCEPT ![c] = 1]
    /\ pc' = [pc EXCEPT ![c] = first_probe_pc(probe_of(target))]
    /\ UNCHANGED <<target, calls, system, fonts, i, result, ret, held, jsVars>>

\* The probe's Option unwrapped: the thread panics on an unavailable probe
\* and get_system_fonts never returns.
ExtendFonts_unwrap(c) ==
    /\ pc[c] = "probe_returned"
    /\ ret[c].some
    /\ fonts' = [fonts EXCEPT ![c] = @ \o ret[c].val]
    /\ pc' = [pc EXCEPT ![c] = "return"]
    /\ UNCHANGED <<target, calls, system, i, events, result, probeVars, jsVars>>

\* The probe has returned: `if let Some(..) = probe() { fonts.extend(..) }`.
ExtendFonts(c) ==
    /\ pc[c] = "probe_returned"
    /\ fonts' = [fonts EXCEPT ![c] = extend_with_probe(@, ret[c])]
    /\ pc' = [pc EXCEPT ![c] = "return"]
    /\ UNCHANGED <<target, calls, system, i, events, result, probeVars, jsVars>>

\* get_system_fonts returns `fonts` to the thread's closure.
system_fonts_result(fs) == Returned(fs)

Return(c) ==
    /\ pc[c] = "return"
    /\ result' = [result EXCEPT ![c] = system_fonts_result(fonts[c])]
    /\ pc' = [pc EXCEPT ![c] = "send"]
    /\ UNCHANGED <<target, calls, system, fonts, i, events, probeVars, jsVars>>

\* ---------------------------------------- linux.rs: get_fontconfig_fonts
\* `Fontconfig::new().or(None)?` and `let mut fonts = Vec::new()`.
FcNew(c) ==
    /\ pc[c] = "fc_new"
    /\ pfonts' = [pfonts EXCEPT ![c] = << >>]
    /\ IF system[c].fc.init
       THEN /\ pc' = [pc EXCEPT ![c] = "fc_list"]
            /\ ret' = ret
       ELSE /\ pc' = [pc EXCEPT ![c] = "probe_returned"]
            /\ ret' = [ret EXCEPT ![c] = None]
    /\ UNCHANGED <<target, calls, system, orchVars, k, held, jsVars>>

\* The two `CString::new(..).ok()?` and list_fonts.
FcListFonts(c) ==
    /\ pc[c] = "fc_list"
    /\ IF CStringNew(FC_FAMILY).some /\ CStringNew(FC_FILE).some
       THEN /\ pc' = [pc EXCEPT ![c] = "fc_iter"]
            /\ k' = [k EXCEPT ![c] = 1]
            /\ ret' = ret
       ELSE /\ pc' = [pc EXCEPT ![c] = "probe_returned"]
            /\ k' = k
            /\ ret' = [ret EXCEPT ![c] = None]
    /\ UNCHANGED <<target, calls, system, orchVars, pfonts, held, jsVars>>

FcPattern(c) ==
    /\ pc[c] = "fc_iter"
    /\ k[c] <= Len(system[c].fc.font_set)
    /\ pfonts' = [pfonts EXCEPT ![c] = fontconfig_pattern(@, system[c].fc.font_set[k[c]])]
    /\ k' = [k EXCEPT ![c] = @ + 1]
    /\ UNCHANGED <<target, calls, system, pc, orchVars, ret, held, jsVars>>

\* After the loop: `if fonts.is_empty()` tries the hardcoded paths.
FcIterEnd(c) ==
    /\ pc[c] = "fc_iter"
    /\ k[c] > Len(system[c].fc.font_set)
    /\ IF use_hardcoded(pfonts[c], system[c].fc.font_set)
       THEN /\ pc' = [pc EXCEPT ![c] = "fc_hardcoded"]
            /\ k' = [k EXCEPT ![c] = 1]
            /\ ret' = ret
       ELSE /\ pc' = [pc EXCEPT ![c] = "probe_returned"]
            /\ k' = k
            /\ ret' = [ret EXCEPT ![c] = Some(pfonts[c])]
    /\ UNCHANGED <<target, calls, system, orchVars, pfonts, held, jsVars>>

\* One hardcoded path: `if path_buf.exists() { fonts.push(..) }`.
hardcoded_step(fs, exists, n) ==
    IF n \in exists THEN Append(fs, hardcoded_font(HardcodedPaths[n])) ELSE fs

FcHardcoded(c) ==
    /\ pc[c] = "fc_hardcoded"
    /\ k[c] <= Len(HardcodedPaths)
    /\ pfonts' = [pfonts EXCEPT ![c] = hardcoded_step(@, system[c].fc.exists, k[c])]
    /\ k' = [k EXCEPT ![c] = @ + 1]
    /\ UNCHANGED <<target, calls, system, pc, orchVars, ret, held, jsVars>>

FcReturn(c) ==
    /\ pc[c] = "fc_hardcoded"
    /\ k[c] > Len(HardcodedPaths)
    /\ ret' = [ret EXCEPT ![c] = Some(pfonts[c])]
    /\ pc' = [pc EXCEPT ![c] = "probe_returned"]
    /\ UNCHANGED <<target, calls, system, orchVars, pfonts, k, held, jsVars>>

\* ------------------------------------------ macos.rs: get_core_text_fonts
\* create_for_all_families and `collection.get_descriptors()?`.
CtDescriptors(c) ==
    /\ pc[c] = "ct_descriptors"
    /\ pfonts' = [pfonts EXCEPT ![c] = << >>]
    /\ IF system[c].ct.some
       THEN /\ pc' = [pc EXCEPT ![c] = "ct_iter"]
            /\ k' = [k EXCEPT ![c] = 1]
            /\ ret' = ret
       ELSE /\ pc' = [pc EXCEPT ![c] = "probe_returned"]
            /\ k' = k
            /\ ret' = [ret EXCEPT ![c] = None]
    /\ UNCHANGED <<target, calls, system, orchVars, held, jsVars>>

CtDescriptor(c) ==
    /\ pc[c] = "ct_iter"
    /\ k[c] <= Len(system[c].ct.val)
    /\ pfonts' = [pfonts EXCEPT ![c] = core_text_descriptor(@, system[c].ct.val[k[c]])]
    /\ k' = [k EXCEPT ![c] = @ + 1]
    /\ UNCHANGED <<target, calls, system, pc, orchVars, ret, held, jsVars>>

CtReturn(c) ==
    /\ pc[c] = "ct_iter"
    /\ k[c] > Len(system[c].ct.val)
    /\ ret' = [ret EXCEPT ![c] = Some(pfonts[c])]
    /\ pc' = [pc EXCEPT ![c] = "probe_returned"]
    /\ UNCHANGED <<target, calls, system, orchVars, pfonts, k, held, jsVars>>

\* -------------------------------------- windows.rs: get_directwrite_fonts
\* DWriteCreateFactory; `return None` on a failure status.
DwCreateFactory(c) ==
    /\ pc[c] = "dw_factory"
    /\ IF system[c].dw.factory
       THEN /\ held' = [held EXCEPT ![c] = @ \cup {<<"factory", 0>>}]
            /\ pc' = [pc EXCEPT ![c] = "dw_collection"]
            /\ ret' = ret
       ELSE /\ held' = held
            /\ pc' = [pc EXCEPT ![c] = "probe_returned"]
            /\ ret' = [ret EXCEPT ![c] = None]
    /\ UNCHANGED <<target, calls, system, orchVars, pfonts, k, jsVars>>

\* GetSystemFontCollection; `return None` on a failure status; then
\* `let mut fonts = Vec::new()` and GetFontFamilyCount.
DwGetCollection(c) ==
    /\ pc[c] = "dw_collection"
    /\ IF system[c].dw.collection
       THEN /\ held' = [held EXCEPT ![c] = @ \cup {<<"collection", 0>>}]
            /\ pfonts' = [pfonts EXCEPT ![c] = << >>]
            /\ k' = [k EXCEPT ![c] = 1]
            /\ pc' = [pc EXCEPT ![c] = "dw_iter"]
            /\ ret' = ret
       ELSE /\ UNCHANGED <<held, pfonts, k>>
            /\ pc' = [pc EXCEPT ![c] = "probe_returned"]
            /\ ret' = [ret EXCEPT ![c] = None]
    /\ UNCHANGED <<target, calls, system, orchVars, jsVars>>

\* One family index (k[c] is the code's i + 1).
DwFamily(c) ==
    /\ pc[c] = "dw_iter"
    /\ k[c] <= Len(system[c].dw.families)
    /\ pfonts' = [pfonts EXCEPT ![c] = directwrite_family(@, system[c].dw.families[k[c]])]
    /\ held' = [held EXCEPT ![c] = @ \cup family_handles(system[c].dw.families[k[c]], k[c])]
    /\ k' = [k EXCEPT ![c] = @ + 1]
    /\ UNCHANGED <<target, calls, system, pc, orchVars, ret, jsVars>>

DwReturn(c) ==
    /\ pc[c] = "dw_iter"
    /\ k[c] > Len(system[c].dw.families)
    /\ ret' = [ret EXCEPT ![c] = Some(pfonts[c])]
    /\ pc' = [pc EXCEPT ![c] = "probe_returned"]
    /\ UNCHANGED <<target, calls, system, orchVars, pfonts, k, held, jsVars>>

\* ------------------------------- lib.rs: the thread's send, the closure
\* cx.string(&s): the JavaScript string of a Rust String (valid Unicode, so
\* nothing is lost).
js_string(s) == [type |-> "string", chars |-> s]

\* The array the closure builds: element n is {name, path} of fonts[n].
js_array(fs) ==
    [n \in DOMAIN fs |-> [name |-> js_string(fs[n].name), path |-> js_string(fs[n].path)]]

\* One deferred shared by every call instead of one per call.
closure_of_shared_deferred(c, fs) == [deferred |-> 1, fonts |-> fs]

\* The closure handed to channel.send: it captures the deferred of its own
\* call and the fonts its own thread enumerated.
closure_of(c, fs) == [deferred |-> c, fonts |-> fs]

ChannelSend(c) ==
    /\ pc[c] = "send"
    /\ channel' = Append(channel, closure_of(c, result[c].val))
    /\ pc' = [pc EXCEPT ![c] = "exited"]
    /\ UNCHANGED <<target, calls, system, orchVars, probeVars, deferred, promise, resolves>>

\* The event loop runs the oldest closure: deferred_guard.take().unwrap(),
\* then deferred.resolve(js_array).  When the deferred was taken before, the
\* unwrap panics and the closure resolves nothing.  (Setting "name", "path"
\* and the index on objects the closure has just created does not throw.)
RunClosure ==
    /\ channel # << >>
    /\ LET cl == Head(channel)
           d == cl.deferred
       IN  IF deferred[d] = "some"
           THEN /\ deferred' = [deferred EXCEPT ![d] = "taken"]
                /\ promise' = [promise EXCEPT ![d] =
                                  [state |-> "resolved", value |-> js_array(cl.fonts)]]
                /\ resolves' = [resolves EXCEPT ![d] = @ + 1]
           ELSE UNCHANGED <<deferred, promise, resolves>>
    /\ channel' = Tail(channel)
    /\ UNCHANGED <<target, calls, system, pc, orchVars, probeVars>>

\* ---------------------------------------------------------- specification
Next ==
    \/ \E c \in calls : GetFonts(c)
    \/ \E c \in calls : AllFamilies(c)
    \/ \E c \in calls : SelectBestMatch(c)
    \/ \E c \in calls : FamiliesEnd(c)
    \/ \E c \in calls : Fallback(c)
    \/ \E c \in calls : FcNew(c)
    \/ \E c \in calls : FcListFonts(c)
    \/ \E c \in calls : FcPattern(c)
    \/ \E c \in calls : FcIterEnd(c)
    \/ \E c \in calls : FcHardcoded(c)
    \/ \E c \in calls : FcReturn(c)
    \/ \E c \in calls : CtDescriptors(c)
    \/ \E c \in calls : CtDescriptor(c)
    \/ \E c \in calls : CtReturn(c)
    \/ \E c \in calls : DwCreateFactory(c)
    \/ \E c \in calls : DwGetCollection(c)
    \/ \E c \in calls : DwFamily(c)
    \/ \E c \in calls : DwReturn(c)
    \/ \E c \in calls : ExtendFonts(c)
    \/ \E c \in calls : Return(c)
    \/ \E c \in calls : ChannelSend(c)
    \/ RunClosure

\* One getFonts() call on any system within the bounds.
Spec == Init /\ [][Next]_vars

\* The same, with the scheduling the runtime gives: the spawned thread runs,
\* and the event loop runs the closures sent to it.
FairSpec == Spec /\ WF_vars(Next)

\* Several getFonts() calls in flight.
SpecCalls == InitManyCalls /\ [][Next]_vars

\* ================================================================ claims
\* What the claims speak of, stated from the system alone.

\* get_system_fonts has returned in call c.
Enumerated(c) == result[c].tag = "ok"

\* The running probe of call c has returned.
ProbeReturned(c) == pc[c] = "probe_returned"

\* The probes get_system_fonts has invoked in call c, in order.
ProbesInvoked(c) == SelectSeq(events[c], LAMBDA e : e \in Targets)

\* The list a returned Option stands for in `if let Some(..)`.
ListOf(o) == IF o.some THEN o.val ELSE << >>

\* Every element is a record of exactly a name and a path.
IsFontList(l) == \A n \in DOMAIN l : DOMAIN l[n] = {"name", "path"}

\* C1. get_system_fonts always terminates by returning a (possibly empty)
\* list of records and never an error, whatever the family listing, the
\* per-family resolutions and the probe answer: once the thread has started
\* the enumeration it returns, what it returns is a list, and no error
\* value is ever its result.
C1_AlwaysReturnsList ==
    /\ [](result[1].tag \in {"none", "ok"} /\ IsFontList(result[1].val))
    /\ (pc[1] = "spawned") ~> Enumerated(1)

\* C1's case: the listing failed, the probe was unavailable, and an empty
\* list was returned all the same.
C1_Witness ==
    /\ Enumerated(1)
    /\ ~system[1].families.ok
    /\ ProbesInvoked(1) # << >>
    /\ ~ret[1].some
    /\ result[1].val = << >>

\* The families whose best-match resolution succeeds, in listing order.
Resolved(l) == SelectSeq(l.val, LAMBDA f : f.match.ok)

\* C4 as stated: when the listing succeeds the result is, in listing order,
\* one record per family whose resolution succeeds, with the handle's path
\* itself for a file-path handle and "" for an in-memory handle.
C4_OneRecordPerResolvedFamily ==
    \A c \in calls :
        Enumerated(c) /\ system[c].families.ok =>
            result[c].val =
                [n \in DOMAIN Resolved(system[c].families) |->
                    LET f == Resolved(system[c].families)[n]
                    IN  FontInfo(f.name,
                                 IF f.match.handle.kind = "Path"
                                 THEN f.match.handle.path ELSE << >>)]

\* U+FFFD for every part of a path that is not valid Unicode.
LossyText(p) == [n \in DOMAIN p |-> IF p[n] = BadByte THEN Replacement ELSE p[n]]

\* C4 amended: the path of a file-path handle is reported as its lossy
\* UTF-8 text (the path itself when it is valid Unicode).
C4_OneRecordPerResolvedFamilyLossy ==
    \A c \in calls :
        Enumerated(c) /\ system[c].families.ok =>
            result[c].val =
                [n \in DOMAIN Resolved(system[c].families) |->
                    LET f == Resolved(system[c].families)[n]
                    IN  FontInfo(f.name,
                                 IF f.match.handle.kind = "Path"
                                 THEN LossyText(f.match.handle.path) ELSE << >>)]

\* C4's case: a family whose resolution fails stands before one that
\* resolves, and the enumeration has returned.
C4_Witness ==
    /\ Enumerated(1)
    /\ system[1].families.ok
    /\ Len(system[1].families.val) = 2
    /\ ~system[1].families.val[1].match.ok
    /\ system[1].families.val[2].match.ok
    /\ system[1].families.val[2].match.handle.kind = "Path"
    /\ Len(result[1].val) = 1

\* C3. The platform probe is invoked if and only if the family listing
\* fails outright: after that failure, at most once, only the probe of the
\* compiled target, and its records are appended to the accumulated list;
\* when the listing succeeds no probe is ever invoked.
C3_ProbeOnlyOnListingFailure ==
    \A c \in calls :
        /\ Len(ProbesInvoked(c)) <= 1
        /\ \A n \in DOMAIN events[c] :
              events[c][n] \in Targets =>
                  /\ events[c][n] = target
                  /\ n > 1
                  /\ events[c][n - 1] = "families_err"
                  /\ ~system[c].families.ok
        /\ Enumerated(c) =>
              /\ (ProbesInvoked(c) # << >>) <=> ~system[c].families.ok
              /\ ProbesInvoked(c) # << >> => result[c].val = ListOf(ret[c])

\* C3's case: the listing succeeded, every resolution failed, and the
\* enumeration returned without a probe.
C3_Witness ==
    /\ Enumerated(1)
    /\ system[1].families.ok
    /\ Len(system[1].families.val) = 2
    /\ \A n \in 1..2 : ~system[1].families.val[n].match.ok
    /\ ProbesInvoked(1) = << >>
    /\ result[1].val = << >>

\* ------------------------------------------------ what each probe finds
\* The file names, without extension, of the three hardcoded paths.
HardcodedStems == << <<"DejaVuSans">>, <<"LiberationSans-Regular">>, <<"Arial">> >>

\* One record per hardcoded path that exists, in the fixed order.
HardcodedRecords(exists) ==
    LET present == SelectSeq(<<1, 2, 3>>, LAMBDA n : n \in exists)
    IN  [n \in DOMAIN present |->
            FontInfo(HardcodedStems[present[n]], HardcodedPaths[present[n]])]

\* One record per query entry that has both a family and a file.
QueryRecords(font_set) ==
    LET both == SelectSeq(font_set, LAMBDA e : e.family.some /\ e.file.some)
    IN  [n \in DOMAIN both |-> FontInfo(both[n].family.val, both[n].file.val)]

\* The list the Linux probe contributes on a system.
LinuxOutput(fc) ==
    IF ~fc.init THEN << >>
    ELSE IF QueryRecords(fc.font_set) # << >> THEN QueryRecords(fc.font_set)
    ELSE HardcodedRecords(fc.exists)

\* The list the macOS probe contributes: one record per descriptor whose
\* URL is a file path.
MacosOutput(ct) ==
    IF ~ct.some THEN << >>
    ELSE LET files == SelectSeq(ct.val, LAMBDA d : d.url.some /\ d.url.val.is_file)
         IN  [n \in DOMAIN files |->
                 FontInfo(files[n].name, LossyText(files[n].url.val.path))]

\* A family's name units decode to text.
Decodes(units) == \A n \in DOMAIN units : units[n] # LoneSurrogate

\* The list the Windows probe contributes: one record per family for which
\* every native call succeeds, named by its decoded text, or by "" when the
\* units do not decode.
WindowsOutput(dw) ==
    IF ~(dw.factory /\ dw.collection) THEN << >>
    ELSE LET good == SelectSeq(dw.families, LAMBDA f : f.fail = "none")
         IN  [n \in DOMAIN good |->
                 LET name == IF Decodes(good[n].units) THEN good[n].units ELSE << >>
                 IN  FontInfo(name, <<"C:\\Windows\\Fonts\\">> \o name \o <<".ttf">>)]

\* The output of the fallback probe of the compiled target on a system.
ProbeOutput(sys) ==
    CASE target = "linux" -> LinuxOutput(sys.fc)
      [] target = "macos" -> MacosOutput(sys.ct)
      [] OTHER -> WindowsOutput(sys.dw)

\* C2 as stated: when the generic source reports zero families, the result
\* is exactly the output of the fallback probe of the current OS.
C2_ZeroFamiliesGivesProbeOutput ==
    \A c \in calls :
        Enumerated(c) /\ system[c].families.val = << >> =>
            result[c].val = ProbeOutput(system[c])

\* C2 amended: when the generic source fails to list the families, the
\* result is exactly the output of the fallback probe of the current OS
\* (nothing when the probe is unavailable), with no record contributed by
\* the generic source; a listing that succeeds with zero families gives an
\* empty result and no probe.
C2_FailedListingGivesProbeOutput ==
    \A c \in calls :
        Enumerated(c) =>
            /\ ~system[c].families.ok =>
                  /\ result[c].val = ProbeOutput(system[c])
                  /\ result[c].val = ListOf(ret[c])
            /\ system[c].families.ok /\ system[c].families.val = << >> =>
                  result[c].val = << >>

\* C2's case: the listing failed and the probe's records, and only they,
\* were returned.
C2_Witness ==
    /\ Enumerated(1)
    /\ ~system[1].families.ok
    /\ ret[1].some
    /\ Len(ret[1].val) = 2
    /\ result[1].val = ret[1].val

\* C5. Every record returned by an enumeration has a non-empty name,
\* whichever path produced it.
C5_NamesNonEmpty ==
    \A c \in calls :
        Enumerated(c) => \A n \in DOMAIN result[c].val : result[c].val[n].name # << >>

\* C6. When the Windows probe returns, on every exit path, no native handle
\* it acquired is still held.
C6_HandlesReleased ==
    \A c \in calls : target = "windows" /\ ProbeReturned(c) => held[c] = {}

\* C7. In the Windows probe a family for which any step fails (the family,
\* its name table, the length, the string, or the decoding to text)
\* contributes no record and the loop goes on; every family for which all
\* steps succeed contributes exactly one record, in index order.
C7_FailedFamilySkipped ==
    \A c \in calls :
        target = "windows" /\ ProbeReturned(c) /\ ret[c].some =>
            LET good == SelectSeq(system[c].dw.families,
                                  LAMBDA f : f.fail = "none" /\ Decodes(f.units))
            IN  /\ Len(ret[c].val) = Len(good)
                /\ \A n \in DOMAIN good : ret[c].val[n].name = good[n].units

\* C8. With fontconfig initialized and a query of zero entries, the Linux
\* probe returns a list (never "unavailable") of exactly one record per
\* hardcoded path that exists, in the fixed order, named by the file's base
\* name without extension, with the hardcoded path; empty when none exists.
C8_HardcodedFallback ==
    \A c \in calls :
        /\ target = "linux"
        /\ ProbeReturned(c)
        /\ system[c].fc.init
        /\ system[c].fc.font_set = << >>
        => /\ ret[c].some
           /\ ret[c].val = HardcodedRecords(system[c].fc.exists)

\* C8's case: an empty query, the first and the third path on disk.
C8_Witness ==
    /\ target = "linux"
    /\ ProbeReturned(1)
    /\ system[1].fc.init
    /\ system[1].fc.font_set = << >>
    /\ system[1].fc.exists = {1, 3}
    /\ Len(ret[1].val) = 2

\* C9 as stated: hardcoded records are added only when the query's result
\* set is empty; a query with at least one entry gives only the records of
\* the entries that have both properties, also when none has both.
C9_HardcodedOnlyForEmptySet ==
    \A c \in calls :
        /\ target = "linux"
        /\ ProbeReturned(c)
        /\ system[c].fc.init
        /\ system[c].fc.font_set # << >>
        => ret[c].val = QueryRecords(system[c].fc.font_set)

\* C9 amended: hardcoded records are added only when the query yields no
\* record (its result set is empty, or no entry has both properties); when
\* some entry has both properties the output is exactly the records of
\* such entries.
C9_HardcodedOnlyForNoRecord ==
    \A c \in calls :
        /\ target = "linux"
        /\ ProbeReturned(c)
        /\ system[c].fc.init
        => /\ ret[c].some
           /\ QueryRecords(system[c].fc.font_set) # << >> =>
                 ret[c].val = QueryRecords(system[c].fc.font_set)
           /\ QueryRecords(system[c].fc.font_set) = << >> =>
                 ret[c].val = HardcodedRecords(system[c].fc.exists)

\* C9's case: a query with entries, one of them with both properties, on a
\* system where a hardcoded path exists.
C9_Witness ==
    /\ target = "linux"
    /\ ProbeReturned(1)
    /\ system[1].fc.init
    /\ Len(system[1].fc.font_set) = 2
    /\ Len(QueryRecords(system[1].fc.font_set)) = 1
    /\ system[1].fc.exists # {}
    /\ Len(ret[1].val) = 1

\* The list get_system_fonts gives on a system, from that system alone.
Enumeration(sys) ==
    IF sys.families.ok
    THEN [n \in DOMAIN Resolved(sys.families) |->
            LET f == Resolved(sys.families)[n]
            IN  FontInfo(f.name, IF f.match.handle.kind = "Path"
                                 THEN LossyText(f.match.handle.path) ELSE << >>)]
    ELSE ProbeOutput(sys)

\* C10. With several calls in flight, under every interleaving, each call's
\* promise is resolved exactly once, with the list of that call's own
\* enumeration; no call's result is affected by or delivered to another
\* call: a promise is resolved at most once; a resolved promise holds the
\* names and paths its own thread enumerated, which depend on that call's
\* system alone; and when every thread has exited and the event loop has
\* run every closure, every promise has been resolved once.
C10_EachPromiseResolvedOnceWithOwnList ==
    \A c \in calls :
        /\ resolves[c] <= 1
        /\ Enumerated(c) => result[c].val = Enumeration(system[c])
        /\ promise[c].state = "resolved" =>
              /\ resolves[c] = 1
              /\ Enumerated(c)
              /\ Len(promise[c].value) = Len(result[c].val)
              /\ \A n \in DOMAIN result[c].val :
                    /\ promise[c].value[n].name.chars = result[c].val[n].name
                    /\ promise[c].value[n].path.chars = result[c].val[n].path
        /\ (channel = << >> /\ \A d \in calls : pc[d] = "exited") =>
              /\ promise[c].state = "resolved"
              /\ resolves[c] = 1

\* C10's case: two calls on different systems are in flight together; the
\* second call's promise is already resolved, with its own non-empty list,
\* while the first call's thread is still enumerating.
C10_Witness ==
    /\ pc[1] \in {"families", "fallback", "return"}
    /\ promise[1].state = "pending"
    /\ promise[2].state = "resolved"
    /\ promise[2].value # << >>
    /\ system[1] # system[2]

====
